---- MODULE Spec2Model ----
(***************************************************************************)
(* Block symmetric Toeplitz / circulant matrices of                        *)
(* capytaine/matrices/block_toeplitz_matrices.py.                          *)
(*                                                                         *)
(* A Python list or a one-dimensional array is a TLA+ sequence: the Python *)
(* element of index k (0-based) is the element k+1 of the sequence.  The   *)
(* values held by index grids are Python (0-based) block indices.  A block *)
(* is a sequence of rows, each a sequence of numbers; numbers are exact    *)
(* integers standing for the floating-point values of the arrays.          *)
(***************************************************************************)
EXTENDS Integers, Sequences, FiniteSets, TLC

VARIABLES self, op, arg, ret

vars == <<self, op, arg, ret>>

(***************************************************************************)
(* Bounds of the model.                                                    *)
(***************************************************************************)
\* largest number of stored blocks in a row
MaxN == 4
\* largest number of rows, and of columns, of a block
MaxDim == 2
\* largest number of numbers stored in a row of blocks (N * r * c)
MaxCells == 6
\* entries of the blocks and of the vectors are in 0..MaxVal
MaxVal == 1
\* longest vector given to a product
MaxVecLen == 8

(***************************************************************************)
(* Python and numpy primitives.                                            *)
(***************************************************************************)
\* abs(x)
abs(x) == IF x < 0 THEN -x ELSE x

\* list(range(n))
range(n) == [k \in 1..n |-> k - 1]

\* s[::-1]
reversed(s) == [k \in 1..Len(s) |-> s[Len(s) + 1 - k]]

\* The position a slice bound k denotes in a list of length n: a negative
\* bound counts from the end, and bounds are clamped to [0, n].
slice_bound(n, k) ==
    IF k < 0 THEN (IF n + k < 0 THEN 0 ELSE n + k)
    ELSE (IF k > n THEN n ELSE k)

\* s[a:]
slice_from(s, a) == SubSeq(s, slice_bound(Len(s), a) + 1, Len(s))

\* s[:b]
slice_to(s, b) == SubSeq(s, 1, slice_bound(Len(s), b))

\* np.zeros(n), n >= 0
zeros(n) == [k \in 1..n |-> 0]

RECURSIVE sum(_)
\* sum of the numbers of a sequence
sum(s) == IF s = <<>> THEN 0 ELSE s[1] + sum(Tail(s))

RECURSIVE concatenate(_)
\* the sequences of a sequence, joined end to end
concatenate(ss) == IF ss = <<>> THEN <<>> ELSE ss[1] \o concatenate(Tail(ss))

\* block @ column: an (r, c) array times a (c, 1) array, as a sequence of length r
matvec(A, x) == [a \in 1..Len(A) |-> sum([k \in 1..Len(x) |-> A[a][k] * x[k]])]

\* block.shape of a two-dimensional array
array_shape(A) == <<Len(A), Len(A[1])>>

\* block.T of a two-dimensional array
array_T(A) == [b \in 1..Len(A[1]) |-> [a \in 1..Len(A) |-> A[a][b]]]

(***************************************************************************)
(* Outcomes of a call.                                                     *)
(***************************************************************************)
Return(v) == [kind |-> "return", val |-> v]
Raise(e) == [kind |-> "raise", val |-> e]
NotImplemented == [kind |-> "NotImplemented", val |-> <<>>]

\* a one-dimensional numpy array holding data
ndarray1(data) == [isndarray |-> TRUE, ndim |-> 1, data |-> data]

(***************************************************************************)
(* Classes.                                                                *)
(***************************************************************************)
Toeplitz == "BlockSymmetricToeplitzMatrix"
Even == "EvenBlockSymmetricCirculantMatrix"
Odd == "OddBlockSymmetricCirculantMatrix"
Circulant == {Even, Odd}
Classes == {Toeplitz, Even, Odd}

\* no object constructed yet
NoObject == [cls |-> "None"]

\* a keyword argument left to its default None
None == <<>>

(***************************************************************************)
(* BlockMatrix (capytaine/matrices/block_matrices.py), the base class that *)
(* stores the blocks.  The stored blocks of the classes below are one row: *)
(* _stored_blocks is that row, _stored_blocks[0, k] its element k+1.       *)
(***************************************************************************)
\* _check_dimension that compares the second stored block only
_check_dimension_SecondOnly(obj) ==
    LET block_shape == array_shape(obj._stored_blocks[1])
    IN \A k \in 2..Len(obj._stored_blocks) :
           k = 2 => array_shape(obj._stored_blocks[k]) = block_shape

\* _check_dimension: the assertion passes when every stored block has the
\* shape of the first one
_check_dimension(obj) ==
    LET block_shape == array_shape(obj._stored_blocks[1])
    IN \A k \in 2..Len(obj._stored_blocks) :
           array_shape(obj._stored_blocks[k]) = block_shape

\* BlockMatrix.__init__(self, blocks, _stored_block_shapes=None, check_dim=True)
\* for one row of blocks: stores the row, its block counts and its per-axis
\* block shapes (computed from the first column and the first row unless
\* given), then checks the dimensions unless told not to.
BlockMatrix___init__(cls, blocks, _stored_block_shapes, check_dim) ==
    LET obj == [cls |-> cls,
                _stored_blocks |-> blocks,
                _stored_nb_blocks |-> <<1, Len(blocks)>>,
                _stored_block_shapes |->
                    IF _stored_block_shapes = None
                    THEN << <<Len(blocks[1])>>,
                            [k \in 1..Len(blocks) |-> Len(blocks[k][1])] >>
                    ELSE _stored_block_shapes]
    IN IF check_dim /\ ~_check_dimension(obj)
       THEN Raise("AssertionError")
       ELSE Return(obj)

\* self._nb_blocks = m
set_nb_blocks(obj, m) ==
    [cls |-> obj.cls,
     _stored_blocks |-> obj._stored_blocks,
     _stored_nb_blocks |-> obj._stored_nb_blocks,
     _stored_block_shapes |-> obj._stored_block_shapes,
     _nb_blocks |-> m]

\* Even___init__ with the block count of the odd class
Even___init___OddCount(blocks, _stored_block_shapes, check_dim) ==
    LET base == BlockMatrix___init__(Even, blocks, _stored_block_shapes, check_dim)
    IN IF base.kind = "raise" THEN base
       ELSE Return(set_nb_blocks(base.val, base.val._stored_nb_blocks[2] * 2 - 1))

\* EvenBlockSymmetricCirculantMatrix.__init__
Even___init__(blocks, _stored_block_shapes, check_dim) ==
    LET base == BlockMatrix___init__(Even, blocks, _stored_block_shapes, check_dim)
    IN IF base.kind = "raise" THEN base
       ELSE Return(set_nb_blocks(base.val, (base.val._stored_nb_blocks[2] - 1) * 2))

\* OddBlockSymmetricCirculantMatrix.__init__
Odd___init__(blocks, _stored_block_shapes, check_dim) ==
    LET base == BlockMatrix___init__(Odd, blocks, _stored_block_shapes, check_dim)
    IN IF base.kind = "raise" THEN base
       ELSE Return(set_nb_blocks(base.val, base.val._stored_nb_blocks[2] * 2 - 1))

\* cls(blocks): the constructor of each class
construct(cls, blocks) ==
    IF cls = Even THEN Even___init__(blocks, None, TRUE)
    ELSE IF cls = Odd THEN Odd___init__(blocks, None, TRUE)
    ELSE BlockMatrix___init__(Toeplitz, blocks, None, TRUE)

(***************************************************************************)
(* Accessors.  A method overridden by the circulant classes is one         *)
(* operator per class and a dispatch on the class of the object.           *)
(***************************************************************************)
\* BlockSymmetricToeplitzMatrix.nb_blocks
Toeplitz_nb_blocks(obj) == <<obj._stored_nb_blocks[2], obj._stored_nb_blocks[2]>>

\* AbstractBlockSymmetricCirculantMatrix.nb_blocks
Circulant_nb_blocks(obj) == <<obj._nb_blocks, obj._nb_blocks>>

nb_blocks(obj) ==
    IF obj.cls \in Circulant THEN Circulant_nb_blocks(obj) ELSE Toeplitz_nb_blocks(obj)

\* BlockSymmetricToeplitzMatrix.block_shape
block_shape(obj) == <<obj._stored_block_shapes[1][1], obj._stored_block_shapes[2][1]>>

\* shape that counts the stored blocks, not the blocks of the full matrix
shape_OfStoredRow(obj) ==
    <<obj._stored_block_shapes[1][1] * obj._stored_nb_blocks[2],
      obj._stored_block_shapes[2][1] * obj._stored_nb_blocks[2]>>

\* BlockSymmetricToeplitzMatrix.shape
shape(obj) ==
    <<obj._stored_block_shapes[1][1] * nb_blocks(obj)[1],
      obj._stored_block_shapes[2][1] * nb_blocks(obj)[2]>>

\* Even__baseline_grid without the reversal of the second run
Even__baseline_grid_NotReversed(obj) ==
    LET blocks_indices == range(Len(obj._stored_blocks))
    IN slice_to(blocks_indices, -1) \o slice_from(blocks_indices, 1)

\* EvenBlockSymmetricCirculantMatrix._baseline_grid
Even__baseline_grid(obj) ==
    LET blocks_indices == range(Len(obj._stored_blocks))
    IN slice_to(blocks_indices, -1) \o reversed(slice_from(blocks_indices, 1))

\* Odd__baseline_grid with the whole reversed run, its first element included
Odd__baseline_grid_WholeReversed(obj) ==
    LET blocks_indices == range(Len(obj._stored_blocks))
    IN blocks_indices \o reversed(blocks_indices)

\* OddBlockSymmetricCirculantMatrix._baseline_grid
Odd__baseline_grid(obj) ==
    LET blocks_indices == range(Len(obj._stored_blocks))
    IN blocks_indices \o reversed(slice_from(blocks_indices, 1))

_baseline_grid(obj) ==
    IF obj.cls = Even THEN Even__baseline_grid(obj) ELSE Odd__baseline_grid(obj)

\* Toeplitz__index_grid numbering the blocks from 1, as the example of its
\* docstring does
Toeplitz__index_grid_OneBased(obj) ==
    LET n == nb_blocks(obj)[1]
    IN [jj \in 1..n |-> [ii \in 1..n |-> abs((ii - 1) - (jj - 1)) + 1]]

\* BlockSymmetricToeplitzMatrix._index_grid: the outer comprehension runs
\* over j (the rows of the result), the inner one over i
Toeplitz__index_grid(obj) ==
    LET n == nb_blocks(obj)[1]
    IN [jj \in 1..n |-> [ii \in 1..n |-> abs((ii - 1) - (jj - 1))]]

\* AbstractBlockSymmetricCirculantMatrix._index_grid: the baseline line, then
\* for i in range(1, nb_blocks[0]) the line line[-i:] + line[:-i]
Circulant__index_grid(obj) ==
    LET line == _baseline_grid(obj)
        n == nb_blocks(obj)[1]
    IN <<line>> \o [i \in 1..(n - 1) |-> slice_from(line, -i) \o slice_to(line, -i)]

_index_grid(obj) ==
    IF obj.cls \in Circulant THEN Circulant__index_grid(obj) ELSE Toeplitz__index_grid(obj)

\* BlockSymmetricToeplitzMatrix.first_block_line
Toeplitz_first_block_line(obj) == obj._stored_blocks

\* AbstractBlockSymmetricCirculantMatrix.first_block_line
Circulant_first_block_line(obj) ==
    LET line == _baseline_grid(obj)
    IN [k \in 1..Len(line) |-> obj._stored_blocks[line[k] + 1]]

first_block_line(obj) ==
    IF obj.cls \in Circulant THEN Circulant_first_block_line(obj)
    ELSE Toeplitz_first_block_line(obj)

\* BlockSymmetricToeplitzMatrix.all_blocks: for each line of indices of the
\* index grid, the blocks first_block_line[indices].  An index grid without
\* any entry is an array of floats, which cannot index; an index beyond the
\* end of first_block_line cannot either.
all_blocks(obj) ==
    LET grid == _index_grid(obj)
        line == first_block_line(obj)
    IN IF concatenate(grid) = <<>>
          \/ \E i \in 1..Len(grid) : \E j \in 1..Len(grid[i]) : grid[i][j] >= Len(line)
       THEN Raise("IndexError")
       ELSE Return([i \in 1..Len(grid) |->
                       [j \in 1..Len(grid[i]) |-> line[grid[i][j] + 1]]])

\* [(i, j) for i in range(n) for j in range(n)]
cells(n) == [t \in 1..(n * n) |-> <<(t - 1) \div n, (t - 1) % n>>]

\* Toeplitz__positions_of_index comparing i - j, not its absolute value
Toeplitz__positions_of_index_Signed(obj, k) ==
    LET n == nb_blocks(obj)[1]
        kept(p) == p[1] - p[2] = k
    IN SelectSeq(cells(n), kept)

\* BlockSymmetricToeplitzMatrix._positions_of_index
Toeplitz__positions_of_index(obj, k) ==
    LET n == nb_blocks(obj)[1]
        kept(p) == abs(p[1] - p[2]) = k
    IN SelectSeq(cells(n), kept)

\* Circulant__positions_of_index that visits the cells with j >= i only
Circulant__positions_of_index_UpperOnly(obj, k) ==
    LET n == nb_blocks(obj)[1]
        grid == _index_grid(obj)
        kept(p) == p[2] >= p[1] /\ grid[p[1] + 1][p[2] + 1] = k
    IN SelectSeq(cells(n), kept)

\* AbstractBlockSymmetricCirculantMatrix._positions_of_index
Circulant__positions_of_index(obj, k) ==
    LET n == nb_blocks(obj)[1]
        grid == _index_grid(obj)
        kept(p) == grid[p[1] + 1][p[2] + 1] = k
    IN SelectSeq(cells(n), kept)

_positions_of_index(obj, k) ==
    IF obj.cls \in Circulant THEN Circulant__positions_of_index(obj, k)
    ELSE Toeplitz__positions_of_index(obj, k)

\* BlockSymmetricToeplitzMatrix.block_shapes
Toeplitz_block_shapes(obj) ==
    <<[k \in 1..nb_blocks(obj)[1] |-> obj._stored_block_shapes[1][1]],
      obj._stored_block_shapes[2]>>

\* AbstractBlockSymmetricCirculantMatrix.block_shapes
Circulant_block_shapes(obj) ==
    <<[k \in 1..nb_blocks(obj)[1] |-> obj._stored_block_shapes[1][1]],
      [k \in 1..nb_blocks(obj)[2] |-> obj._stored_block_shapes[2][1]]>>

block_shapes(obj) ==
    IF obj.cls \in Circulant THEN Circulant_block_shapes(obj)
    ELSE Toeplitz_block_shapes(obj)

\* T that builds the new object from the stored blocks as they are
T_NotTransposed(obj) ==
    construct(obj.cls, obj._stored_blocks)

\* T that takes the first stored block only (the slice [0, :1])
T_FirstBlockOnly(obj) ==
    construct(obj.cls, <<array_T(obj._stored_blocks[1])>>)

\* BlockSymmetricToeplitzMatrix.T: an object of the same class built from the
\* transposed stored blocks, in the same order
T(obj) ==
    LET transposed_blocks ==
            [k \in 1..Len(obj._stored_blocks) |-> array_T(obj._stored_blocks[k])]
    IN construct(obj.cls, transposed_blocks)

(***************************************************************************)
(* Matrix-vector products.                                                 *)
(***************************************************************************)
\* np.fft.ifft(np.fft.fft(AA, axis=0) @ np.fft.fft(bt, axis=0), axis=0) for
\* AA of shape (M, r, c) and bt of shape (M, c, 1): the transform along the
\* block axis, the product frequency by frequency and the inverse transform
\* give the circular convolution along that axis (convolution theorem),
\*     y[m] = sum over j of AA[(m - j) mod M] @ bt[j],
\* here computed exactly.
fft_matmul_ifft(AA, bt) ==
    LET M == Len(AA)
    IN [m \in 1..M |->
           [a \in 1..Len(AA[1]) |->
               sum([j \in 1..M |-> matvec(AA[((m - j) % M) + 1], bt[j])[a]])]]

\* y.reshape(n) of an (M, r, 1) array y: its M*r numbers in order, when n is
\* their count
reshape1(y, n) ==
    IF Len(concatenate(y)) = n THEN Return(concatenate(y)) ELSE Raise("ValueError")

\* isinstance(other, np.ndarray) and other.ndim == 1
\*     and self.shape[1] == other.shape[0]
is_vector_for(obj, other) ==
    /\ other.isndarray
    /\ other.ndim = 1
    /\ shape(obj)[2] = Len(other.data)

\* AbstractBlockSymmetricCirculantMatrix.__matmul__
Circulant___matmul__(obj, other) ==
    IF is_vector_for(obj, other)
    THEN LET AA == first_block_line(obj)
         IN IF Len(AA) < 1
            THEN \* np.fft.fft along an axis of length 0
                 Raise("ValueError")
            ELSE LET AAt_shape == <<Len(AA), Len(AA[1]), Len(AA[1][1])>>
                 IN IF Len(other.data) # AAt_shape[1] * AAt_shape[2] * 1
                    THEN \* np.reshape(other, AAt.shape[:2] + (1,))
                         Raise("ValueError")
                    ELSE LET bt == [m \in 1..AAt_shape[1] |->
                                       SubSeq(other.data, (m - 1) * AAt_shape[2] + 1,
                                              m * AAt_shape[2])]
                         IN IF AAt_shape[3] # AAt_shape[2]
                            THEN \* AAt @ bt: (M, r, c) @ (M, r, 1)
                                 Raise("ValueError")
                            ELSE \* the values are real: the cast to the type of
                                 \* the elements of other leaves them as they are
                                 reshape1(fft_matmul_ifft(AA, bt), shape(obj)[1])
    ELSE NotImplemented

\* embedding that builds the odd circulant variant
embedding_Odd(obj) ==
    Odd___init__(obj._stored_blocks, obj._stored_block_shapes, FALSE).val

\* the circulant matrix A that BlockSymmetricToeplitzMatrix.__matmul__ builds
embedding(obj) ==
    Even___init__(obj._stored_blocks, obj._stored_block_shapes, FALSE).val

\* BlockSymmetricToeplitzMatrix.__matmul__
Toeplitz___matmul__(obj, other) ==
    IF is_vector_for(obj, other)
    THEN LET A == embedding(obj)
             pad == shape(A)[2] - shape(obj)[2]
         IN IF pad < 0
            THEN \* np.zeros of a negative length
                 Raise("ValueError")
            ELSE LET b == ndarray1(other.data \o zeros(pad))
                     Ab == Circulant___matmul__(A, b)
                 IN IF Ab.kind = "return"
                    THEN Return(slice_to(Ab.val, shape(obj)[1]))
                    ELSE IF Ab.kind = "raise" THEN Ab
                    ELSE \* A @ b with no implementation on either side
                         Raise("TypeError")
    ELSE NotImplemented

__matmul__(obj, other) ==
    IF obj.cls \in Circulant THEN Circulant___matmul__(obj, other)
    ELSE Toeplitz___matmul__(obj, other)

(***************************************************************************)
(* Inputs.                                                                 *)
(***************************************************************************)
\* the r x c arrays with entries in 0..MaxVal
Arrays(r, c) == [1..r -> [1..c -> 0..MaxVal]]

\* the (N, r, c) of the rows of blocks
RowDims ==
    {d \in (1..MaxN) \X (1..MaxDim) \X (1..MaxDim) : d[1] * d[2] * d[3] <= MaxCells}

\* rows of N blocks of one shape
BlockRows == UNION {[1..d[1] -> Arrays(d[2], d[3])] : d \in RowDims}

\* the shapes of the blocks of a row: any shapes, N * r * c numbers at most
RowShapes ==
    UNION {{sh \in [1..n -> (1..MaxDim) \X (1..MaxDim)] :
               \A k \in 1..n : n * sh[k][1] * sh[k][2] <= MaxCells} : n \in 1..MaxN}

RECURSIVE RowsOfShapes(_)
\* the rows of blocks whose shapes are sh
RowsOfShapes(sh) ==
    IF sh = <<>> THEN {<<>>}
    ELSE {<<a>> \o rest : a \in Arrays(sh[1][1], sh[1][2]),
                          rest \in RowsOfShapes(Tail(sh))}

\* rows of blocks that do not all have one shape
MixedRows ==
    UNION {RowsOfShapes(sh) : sh \in {x \in RowShapes : \E k \in DOMAIN x : x[k] # x[1]}}

\* the rows given to a constructor
Rows == BlockRows \cup MixedRows

\* the indices asked of _positions_of_index
Indices == (-1)..MaxN

\* the properties that give shapes
ShapeProperties == {"nb_blocks", "block_shapes", "block_shape", "shape"}

\* one-dimensional arrays of length L with at most two non-zero entries
Vectors(L) ==
    {ndarray1([k \in 1..L |-> IF k = p[1] THEN x[1] ELSE IF k = p[2] THEN x[2] ELSE 0]) :
        p \in (0..L) \X (0..L), x \in (0..MaxVal) \X (0..MaxVal)}

\* operands that are no one-dimensional array: another object, a 2-D array
NonVectors ==
    {[isndarray |-> FALSE, ndim |-> 2, data |-> <<>>],
     [isndarray |-> TRUE, ndim |-> 2, data |-> <<>>]}

Operands == NonVectors \cup UNION {Vectors(L) : L \in 0..MaxVecLen}

(***************************************************************************)
(* Products of complex numbers and the type of the elements.  A complex    *)
(* array is its real parts (data) and its imaginary parts (imag); a view   *)
(* of complex blocks has the imaginary parts of its stored blocks in       *)
(* _imag_blocks.  The transforms and the product are linear, so the        *)
(* product of complex blocks with a complex vector is made of the four     *)
(* products of their real and imaginary parts.                             *)
(***************************************************************************)
\* a one-dimensional np.ndarray with its dtype
typed_ndarray1(dtype, data, imag) ==
    [isndarray |-> TRUE, ndim |-> 1, dtype |-> dtype, data |-> data, imag |-> imag]

\* the object with the imaginary parts of its stored blocks
with_imag(obj, imag_blocks) ==
    [f \in (DOMAIN obj) \cup {"_imag_blocks"} |->
        IF f = "_imag_blocks" THEN imag_blocks ELSE obj[f]]

\* the view over the imaginary parts of the stored blocks
imag_part(obj) == [obj EXCEPT !._stored_blocks = obj._imag_blocks]

\* np.result_type of two of the dtypes int64, float64, complex128
result_type(a, b) ==
    IF a = "complex128" \/ b = "complex128" THEN "complex128"
    ELSE IF a = "float64" \/ b = "float64" THEN "float64"
    ELSE "int64"

\* np.asarray that leaves the array as it is
asarray_NoCast(y, dtype) == y

\* np.asarray(y, dtype=dtype) of a complex array y: a cast to a real type
\* discards the imaginary parts (the real parts are whole numbers here, that
\* a cast to int64 leaves as they are)
asarray(y, dtype) ==
    typed_ndarray1(dtype, y.data,
                   IF dtype = "complex128" THEN y.imag ELSE zeros(Len(y.imag)))

\* AbstractBlockSymmetricCirculantMatrix.__matmul__ on complex blocks and a
\* vector with a dtype
Circulant___matmul___typed(obj, other) ==
    IF is_vector_for(obj, other)
    THEN LET re == ndarray1(other.data)
             im == ndarray1(other.imag)
             ReRe == Circulant___matmul__(obj, re)
             ImIm == Circulant___matmul__(imag_part(obj), im)
             ReIm == Circulant___matmul__(obj, im)
             ImRe == Circulant___matmul__(imag_part(obj), re)
         IN IF ReRe.kind # "return" THEN ReRe
            ELSE LET y == typed_ndarray1(
                              "complex128",
                              [t \in 1..Len(ReRe.val) |-> ReRe.val[t] - ImIm.val[t]],
                              [t \in 1..Len(ReRe.val) |-> ReIm.val[t] + ImRe.val[t]])
                 IN Return(asarray(y, other.dtype))
    ELSE NotImplemented

\* BlockSymmetricToeplitzMatrix.__matmul__ on complex blocks and a vector with
\* a dtype
Toeplitz___matmul___typed(obj, other) ==
    IF is_vector_for(obj, other)
    THEN LET A == with_imag(embedding(obj), obj._imag_blocks)
             pad == shape(A)[2] - shape(obj)[2]
         IN IF pad < 0
            THEN Raise("ValueError")
            ELSE LET b == typed_ndarray1(result_type(other.dtype, "float64"),
                                         other.data \o zeros(pad),
                                         other.imag \o zeros(pad))
                     Ab == Circulant___matmul___typed(A, b)
                 IN IF Ab.kind = "return"
                    THEN Return(typed_ndarray1(Ab.val.dtype,
                                               slice_to(Ab.val.data, shape(obj)[1]),
                                               slice_to(Ab.val.imag, shape(obj)[1])))
                    ELSE IF Ab.kind = "raise" THEN Ab
                    ELSE Raise("TypeError")
    ELSE NotImplemented

__matmul___typed(obj, other) ==
    IF obj.cls \in Circulant THEN Circulant___matmul___typed(obj, other)
    ELSE Toeplitz___matmul___typed(obj, other)

\* the dtypes of the vectors
DTypes == {"int64", "float64", "complex128"}

\* the (N, r, c) of the rows of complex blocks: two numbers per cell
TypedRowDims == {d \in RowDims : 2 * d[1] * d[2] * d[3] <= MaxCells}

\* rows of N real or imaginary parts of blocks of one shape
PartRows(d) == [1..d[1] -> Arrays(d[2], d[3])]

\* the real and imaginary parts <<x, y>> of the vectors of length L with at
\* most one entry that is not 0
Units(L) ==
    {<<[k \in 1..L |-> IF k = p THEN z[1] ELSE 0],
       [k \in 1..L |-> IF k = p THEN z[2] ELSE 0]>> :
        p \in 0..L, z \in (0..MaxVal) \X (0..MaxVal)}

\* the vectors of length L with a dtype
TypedVectors(L) ==
    {typed_ndarray1(t, u[1], zeros(L)) : t \in DTypes \ {"complex128"}, u \in Units(L)}
    \cup {typed_ndarray1("complex128", u[1], u[2]) : u \in Units(L)}

\* the operands of the calls whose values do not matter: the operands that
\* are no vector and the vector of ones of every length
ProbeOperands == NonVectors \cup {ndarray1([k \in 1..L |-> 1]) : L \in 0..MaxVecLen}

(***************************************************************************)
(* The state machine: an object is constructed, then its methods are       *)
(* called; op, arg and ret hold the last call, its argument and outcome.   *)
(***************************************************************************)
Init ==
    /\ self = NoObject
    /\ op = "none"
    /\ arg = <<>>
    /\ ret = Return(<<>>)

\* self = cls(blocks)
New(cls, blocks) ==
    /\ LET made == construct(cls, blocks)
       IN /\ self' = (IF made.kind = "return" THEN made.val ELSE NoObject)
          /\ ret' = (IF made.kind = "return" THEN Return(<<>>) ELSE made)
    /\ op' = "__init__"
    /\ arg' = blocks

\* the one construction of the object, from any class and any row of blocks
Construct ==
    /\ self = NoObject
    /\ op = "none"
    /\ \E cls \in Classes, blocks \in Rows : New(cls, blocks)

\* self._index_grid()
IndexGrid ==
    /\ self # NoObject
    /\ op' = "_index_grid"
    /\ arg' = <<>>
    /\ ret' = Return(_index_grid(self))
    /\ UNCHANGED self

\* self._baseline_grid()
BaselineGrid ==
    /\ self # NoObject
    /\ self.cls \in Circulant
    /\ op' = "_baseline_grid"
    /\ arg' = <<>>
    /\ ret' = Return(_baseline_grid(self))
    /\ UNCHANGED self

\* self._positions_of_index(k)
PositionsOfIndex(k) ==
    /\ self # NoObject
    /\ op' = "_positions_of_index"
    /\ arg' = k
    /\ ret' = Return(_positions_of_index(self, k))
    /\ UNCHANGED self

\* self.all_blocks
AllBlocks ==
    /\ self # NoObject
    /\ op' = "all_blocks"
    /\ arg' = <<>>
    /\ ret' = all_blocks(self)
    /\ UNCHANGED self

\* self.nb_blocks, self.block_shapes, self.block_shape, self.shape
GetShape(name) ==
    /\ self # NoObject
    /\ op' = name
    /\ arg' = <<>>
    /\ ret' = Return(CASE name = "nb_blocks" -> nb_blocks(self)
                       [] name = "block_shapes" -> block_shapes(self)
                       [] name = "block_shape" -> block_shape(self)
                       [] OTHER -> shape(self))
    /\ UNCHANGED self

\* self.T
Transpose ==
    /\ self # NoObject
    /\ op' = "T"
    /\ arg' = <<>>
    /\ ret' = T(self)
    /\ UNCHANGED self

\* the T of the object that self.T returned: self.T.T
TransposeReturned ==
    /\ self # NoObject
    /\ op = "T"
    /\ ret.kind = "return"
    /\ op' = "T.T"
    /\ arg' = <<>>
    /\ ret' = T(ret.val)
    /\ UNCHANGED self

\* self @ other
MatMul(other) ==
    /\ self # NoObject
    /\ op' = "__matmul__"
    /\ arg' = other
    /\ ret' = __matmul__(self, other)
    /\ UNCHANGED self

Next ==
    \/ Construct
    \/ IndexGrid
    \/ BaselineGrid
    \/ \E k \in Indices : PositionsOfIndex(k)
    \/ AllBlocks
    \/ \E name \in ShapeProperties : GetShape(name)
    \/ Transpose
    \/ TransposeReturned
    \/ \E other \in Operands : MatMul(other)

Spec == Init /\ [][Next]_vars

\* everything but the products
NextGrid ==
    \/ Construct
    \/ IndexGrid
    \/ BaselineGrid
    \/ \E k \in Indices : PositionsOfIndex(k)
    \/ AllBlocks
    \/ \E name \in ShapeProperties : GetShape(name)
    \/ Transpose
    \/ TransposeReturned

SpecGrid == Init /\ [][NextGrid]_vars

\* every call, the products with the operands whose values do not matter
NextCalls ==
    \/ Construct
    \/ IndexGrid
    \/ BaselineGrid
    \/ \E k \in Indices : PositionsOfIndex(k)
    \/ AllBlocks
    \/ \E name \in ShapeProperties : GetShape(name)
    \/ Transpose
    \/ TransposeReturned
    \/ \E other \in ProbeOperands : MatMul(other)

SpecCalls == Init /\ [][NextCalls]_vars

\* self = cls(blocks) for a row of complex blocks, given as the row of their
\* real parts and the row of their imaginary parts
ConstructTyped ==
    /\ self = NoObject
    /\ op = "none"
    /\ \E cls \in Classes, d \in TypedRowDims :
           \E blocks \in PartRows(d), imag_blocks \in PartRows(d) :
               /\ self' = with_imag(construct(cls, blocks).val, imag_blocks)
               /\ op' = "__init__"
               /\ arg' = blocks
               /\ ret' = Return(<<>>)

\* self @ other for a vector with a dtype, or an operand that is no vector
MatMulTyped ==
    /\ self # NoObject
    /\ op = "__init__"
    /\ \E other \in TypedVectors(shape(self)[2]) \cup NonVectors :
           /\ op' = "__matmul__"
           /\ arg' = other
           /\ ret' = __matmul___typed(self, other)
    /\ UNCHANGED self

\* the product as a function of complex blocks and a vector with a dtype
NextTyped ==
    \/ ConstructTyped
    \/ MatMulTyped

SpecTyped == Init /\ [][NextTyped]_vars

(***************************************************************************)
(* Vocabulary of the properties.                                           *)
(***************************************************************************)
\* the object is a constructed view of class cls
IsView(cls) == self.cls = cls

\* N_s, r and c of the stored row of the object
Ns == Len(self._stored_blocks)
BlockRowsCount == Len(self._stored_blocks[1])
BlockColsCount == Len(self._stored_blocks[1][1])

\* the last call was self @ v for a one-dimensional array v of length L
MultipliedVector(L) ==
    /\ op = "__matmul__"
    /\ arg.isndarray
    /\ arg.ndim = 1
    /\ Len(arg.data) = L

\* the last call was self @ v for a one-dimensional array v
MultipliedAnyVector == op = "__matmul__" /\ arg.isndarray /\ arg.ndim = 1

\* The ordinary product with v of the materialized block matrix whose block
\* (i, j), for i, j in [0, n), is the stored block of index at(i, j).
DenseProduct(n, at(_, _), v) ==
    LET c == BlockColsCount
        r == BlockRowsCount
    IN concatenate(
         [i \in 1..n |->
            [a \in 1..r |->
               sum([j \in 1..n |->
                      matvec(self._stored_blocks[at(i - 1, j - 1) + 1],
                             SubSeq(v, (j - 1) * c + 1, j * c))[a]])]])

\* |i - j|
Distance(i, j) == IF i >= j THEN i - j ELSE j - i

\* the entry (i, j) of the grid the last call returned
Returned(i, j) == ret.val[i + 1][j + 1]

\* the entry (i, j) of the index grid of the object
GridAt(i, j) == _index_grid(self)[i + 1][j + 1]

\* the number M of logical blocks per side of the object
M == nb_blocks(self)[1]

\* s rotated right by i positions
RotatedRight(s, i) == [k \in 1..Len(s) |-> s[((k - 1 - i) % Len(s)) + 1]]

(***************************************************************************)
(* Properties of the products.                                             *)
(***************************************************************************)
\* C1 (embedding correctness, as claimed): a symmetric-Toeplitz view of
\* N >= 2 stored r x c blocks multiplied by any vector of length N*c returns
\* the product of the materialized matrix (block (i,j) = stored block |i-j|)
\* with that vector.
C1_EmbeddingCorrectness ==
    (IsView(Toeplitz) /\ Ns >= 2 /\ MultipliedVector(Ns * BlockColsCount))
        => /\ ret.kind = "return"
           /\ ret.val = DenseProduct(Ns, Distance, arg.data)

\* C2 (frequency-domain equivalence, as claimed): an even or odd circulant
\* view of M logical blocks multiplied by any vector of length M*c returns
\* the product of the materialized matrix (block (i,j) = stored block
\* index_grid[i][j]) with that vector.  Stated on the views that have at
\* least one logical block.
C2_FrequencyDomainEquivalence ==
    (self.cls \in Circulant /\ M >= 1 /\ MultipliedVector(M * BlockColsCount))
        => /\ ret.kind = "return"
           /\ ret.val = DenseProduct(M, GridAt, arg.data)

\* C3 (rectangular blocks, as claimed): a circulant view whose blocks have
\* r # c, multiplied by a vector of length M*c, returns a vector of length
\* M*r and does not fail on the reshape.  Stated on the views that have at
\* least one logical block.
C3_RectangularBlocks ==
    (self.cls \in Circulant /\ BlockRowsCount # BlockColsCount /\ M >= 1
         /\ MultipliedVector(M * BlockColsCount))
        => /\ ret.kind = "return"
           /\ Len(ret.val) = M * BlockRowsCount

\* C4 (degenerate case N = 1, as claimed): a symmetric-Toeplitz view of one
\* stored block multiplied by a vector of length c returns the product of
\* that block with the vector and does not end in an error.
C4_SingleBlockToeplitz ==
    (IsView(Toeplitz) /\ Ns = 1 /\ MultipliedVector(BlockColsCount))
        => /\ ret.kind = "return"
           /\ ret.val = matvec(self._stored_blocks[1], arg.data)

\* C5 (as claimed): constructing the even variant over a stored row of
\* length 1 fails, so that no even circulant view with M = 0 blocks exists.
C5_NoEmptyEvenView ==
    ~(IsView(Even) /\ M = 0)

\* C6 (as claimed): a product with a one-dimensional vector whose length is
\* not the column count ends in a shape-mismatch error, an outcome that
\* differs from the one an operand that is no one-dimensional vector gets.
C6_ShapeMismatchIsDistinct ==
    (self.cls \in Classes /\ MultipliedAnyVector /\ Len(arg.data) # shape(self)[2])
        => /\ ret.kind = "raise"
           /\ \A u \in NonVectors : ret # __matmul__(self, u)

(***************************************************************************)
(* Properties of the index grids.                                          *)
(***************************************************************************)
\* C7 (Toeplitz value law): the index grid of a symmetric-Toeplitz view of N
\* stored blocks is the N x N grid with |i-j| at (i,j), 0 on the main
\* diagonal, a function of N alone.
C7_ToeplitzValueLaw ==
    (IsView(Toeplitz) /\ op = "_index_grid")
        => /\ ret.kind = "return"
           /\ Len(ret.val) = Ns
           /\ \A i \in 0..(Ns - 1) :
                  /\ Len(ret.val[i + 1]) = Ns
                  /\ Returned(i, i) = 0
                  /\ \A j \in 0..(Ns - 1) : Returned(i, j) = Distance(i, j)
           /\ ret.val = [i \in 1..Ns |-> [j \in 1..Ns |-> Distance(i, j)]]

\* C7 witness: the grid of four stored blocks was computed, with 3 in its
\* corners and 0 on its diagonal.
C7_Witness ==
    /\ IsView(Toeplitz) /\ Ns = 4 /\ op = "_index_grid"
    /\ Returned(0, 3) = 3 /\ Returned(3, 0) = 3 /\ Returned(2, 2) = 0
    /\ Returned(1, 2) = 1

\* C8 (circulant rotation law, as claimed): for both circulant variants the
\* index grid is M x M, its row 0 is the baseline grid, its row i is row 0
\* rotated right by i positions, i.e. its entry (i,j) is
\* baseline_grid[(j-i) mod M].
C8_CirculantRotationLaw ==
    (self.cls \in Circulant /\ op = "_index_grid")
        => /\ Len(ret.val) = M
           /\ ret.val[1] = _baseline_grid(self)
           /\ \A i \in 0..(M - 1) :
                  /\ Len(ret.val[i + 1]) = M
                  /\ ret.val[i + 1] = RotatedRight(ret.val[1], i)
                  /\ \A j \in 0..(M - 1) :
                         Returned(i, j) = _baseline_grid(self)[((j - i) % M) + 1]

\* the object is a valid view: a Toeplitz view, an odd circulant view, or an
\* even circulant view over at least two stored blocks
ValidView ==
    \/ IsView(Toeplitz)
    \/ IsView(Odd)
    \/ IsView(Even) /\ Ns >= 2

\* C9 (symmetry invariant): the index grid of every valid Toeplitz, even or
\* odd circulant view has equal entries at (i,j) and (j,i).
C9_SymmetryInvariant ==
    (ValidView /\ op = "_index_grid")
        => \A i \in 0..(Len(ret.val) - 1) :
               \A j \in 0..(Len(ret.val[i + 1]) - 1) :
                   /\ j < Len(ret.val) /\ i < Len(ret.val[j + 1])
                   /\ Returned(i, j) = Returned(j, i)

\* C9 witness: the grid of an even circulant view over four stored blocks
\* was computed, with the same entry 2 at (1,3) and (3,1) and 3 at (0,3) and
\* (3,0).
C9_Witness ==
    /\ IsView(Even) /\ Ns = 4 /\ op = "_index_grid"
    /\ Returned(1, 3) = 2 /\ Returned(3, 1) = 2
    /\ Returned(0, 3) = 3 /\ Returned(3, 0) = 3

\* C10 (even variant law): an even circulant view over N_s stored blocks has
\* M = 2*(N_s-1) logical blocks per side and the baseline grid
\* [0,...,N_s-2] + [N_s-1,...,1] of length M; N_s = 4 gives M = 6 and
\* [0,1,2,3,2,1].
C10_EvenVariantLaw ==
    IsView(Even)
        => /\ nb_blocks(self) = <<2 * (Ns - 1), 2 * (Ns - 1)>>
           /\ op = "_baseline_grid"
                => /\ ret.kind = "return"
                   /\ Len(ret.val) = M
                   /\ ret.val = [k \in 1..(2 * (Ns - 1)) |->
                                    IF k <= Ns - 1 THEN k - 1 ELSE 2 * Ns - 1 - k]
                   /\ Ns = 4 => (M = 6 /\ ret.val = <<0, 1, 2, 3, 2, 1>>)

\* C10 witness: the baseline grid of an even view over four stored blocks
\* was computed and is [0,1,2,3,2,1], with M = 6.
C10_Witness ==
    /\ IsView(Even) /\ Ns = 4 /\ op = "_baseline_grid"
    /\ M = 6
    /\ ret.val = <<0, 1, 2, 3, 2, 1>>

\* C11 (odd variant law): an odd circulant view over N_s >= 1 stored blocks
\* has M = 2*N_s - 1 logical blocks per side and the baseline grid
\* [0,...,N_s-1] + [N_s-1,...,1] of length M; N_s = 4 gives M = 7 and
\* [0,1,2,3,3,2,1], N_s = 3 gives [0,1,2,2,1], N_s = 1 gives M = 1.
C11_OddVariantLaw ==
    IsView(Odd)
        => /\ nb_blocks(self) = <<2 * Ns - 1, 2 * Ns - 1>>
           /\ Ns = 1 => M = 1
           /\ op = "_baseline_grid"
                => /\ ret.kind = "return"
                   /\ Len(ret.val) = M
                   /\ ret.val = [k \in 1..(2 * Ns - 1) |->
                                    IF k <= Ns THEN k - 1 ELSE 2 * Ns - k]
                   /\ Ns = 4 => (M = 7 /\ ret.val = <<0, 1, 2, 3, 3, 2, 1>>)
                   /\ Ns = 3 => ret.val = <<0, 1, 2, 2, 1>>
                   /\ Ns = 1 => ret.val = <<0>>

\* C11 witness: the baseline grid of an odd view over four stored blocks was
\* computed and is [0,1,2,3,3,2,1], with M = 7.
C11_Witness ==
    /\ IsView(Odd) /\ Ns = 4 /\ op = "_baseline_grid"
    /\ M = 7
    /\ ret.val = <<0, 1, 2, 3, 3, 2, 1>>

(***************************************************************************)
(* Properties of the transposition.                                        *)
(***************************************************************************)
\* the block (i, j), for i, j in [0, N), of a symmetric-Toeplitz view
BlockAt(obj, i, j) == all_blocks(obj).val[i + 1][j + 1]

\* B is the transpose of the two-dimensional array A
IsTransposeOf(B, A) ==
    /\ Len(B) = Len(A[1])
    /\ \A b \in 1..Len(B) :
           /\ Len(B[b]) = Len(A)
           /\ \A a \in 1..Len(A) : B[b][a] = A[a][b]

\* the fully materialized matrix of a symmetric-Toeplitz view, its blocks laid
\* out side by side
FullMatrix(obj) ==
    LET r == block_shape(obj)[1]
        c == block_shape(obj)[2]
        n == nb_blocks(obj)[1]
    IN [I \in 1..(n * r) |->
           [J \in 1..(n * c) |->
               BlockAt(obj, (I - 1) \div r, (J - 1) \div c)[((I - 1) % r) + 1][((J - 1) % c) + 1]]]

\* C12 (transpose): the transpose of a symmetric-Toeplitz view is a new view
\* of the same kind whose stored row holds, in the same order, the transpose
\* of each stored block; its block (i,j) is the transpose of the block (j,i)
\* of the original and its total shape is (N*c, N*r).
C12_TransposeLaw ==
    (IsView(Toeplitz) /\ op = "T")
        => /\ ret.kind = "return"
           /\ ret.val.cls = Toeplitz
           /\ Len(ret.val._stored_blocks) = Ns
           /\ \A k \in 1..Ns :
                  IsTransposeOf(ret.val._stored_blocks[k], self._stored_blocks[k])
           /\ \A i \in 0..(Ns - 1) : \A j \in 0..(Ns - 1) :
                  IsTransposeOf(BlockAt(ret.val, i, j), BlockAt(self, j, i))
           /\ shape(ret.val) = <<Ns * BlockColsCount, Ns * BlockRowsCount>>

\* C12 witness: a view of two 1 x 2 blocks [0 1] and [1 1] was transposed and
\* the returned view stores the 2 x 1 blocks [0; 1] and [1; 1].
C12_Witness ==
    /\ IsView(Toeplitz) /\ op = "T"
    /\ self._stored_blocks = << << <<0, 1>> >>, << <<1, 1>> >> >>
    /\ ret.kind = "return"
    /\ ret.val._stored_blocks = << << <<0>>, <<1>> >>, << <<1>>, <<1>> >> >>

\* C13 (transpose involution): transposing a symmetric-Toeplitz view twice
\* gives a view whose fully materialized matrix equals, entry by entry, the
\* fully materialized original.
C13_TransposeInvolution ==
    (IsView(Toeplitz) /\ op = "T.T")
        => /\ ret.kind = "return"
           /\ FullMatrix(ret.val) = FullMatrix(self)

\* C13 witness: a view of two 1 x 2 blocks [0 1] and [1 0] was transposed
\* twice and the materialized result has the row [0 1 1 0] of the original.
C13_Witness ==
    /\ IsView(Toeplitz) /\ op = "T.T"
    /\ self._stored_blocks = << << <<0, 1>> >>, << <<1, 0>> >> >>
    /\ ret.kind = "return"
    /\ FullMatrix(ret.val) = << <<0, 1, 1, 0>>, <<1, 0, 0, 1>> >>

(***************************************************************************)
(* Properties of the positions, the shapes and the construction.           *)
(***************************************************************************)
\* the value the grid of the object has at (i, j): |i-j| for a Toeplitz
\* view, the entry of the index grid for a circulant view
ValueAt(i, j) == IF IsView(Toeplitz) THEN Distance(i, j) ELSE GridAt(i, j)

\* C14 (positions of an index): _positions_of_index(k) returns exactly the
\* cells (i,j) of the grid whose value is k, each once: |i-j| = k for a
\* Toeplitz view, index_grid[i][j] = k for a circulant view; the empty list
\* when k occurs nowhere.
C14_PositionsOfIndex ==
    (self.cls \in Classes /\ op = "_positions_of_index")
        => /\ ret.kind = "return"
           /\ \A s \in 1..Len(ret.val) : \A t \in 1..Len(ret.val) :
                  ret.val[s] = ret.val[t] => s = t
           /\ {ret.val[s] : s \in 1..Len(ret.val)}
                  = {p \in (0..(M - 1)) \X (0..(M - 1)) : ValueAt(p[1], p[2]) = arg}
           /\ (\A i \in 0..(M - 1) : \A j \in 0..(M - 1) : ValueAt(i, j) # arg)
                  => ret.val = <<>>

\* C14 witness: the positions of index 1 in a Toeplitz view of three blocks
\* were asked and are (0,1), (1,0), (1,2), (2,1).
C14_Witness ==
    /\ IsView(Toeplitz) /\ Ns = 3 /\ op = "_positions_of_index" /\ arg = 1
    /\ ret.val = << <<0, 1>>, <<1, 0>>, <<1, 2>>, <<2, 1>> >>

\* the number of blocks per direction the class of the object must report:
\* N for a Toeplitz view, 2(N-1) for the even and 2N-1 for the odd variant
ExpectedCount ==
    CASE IsView(Toeplitz) -> Ns
      [] IsView(Even) -> 2 * (Ns - 1)
      [] OTHER -> 2 * Ns - 1

\* C15 (shape laws): over a stored row of N blocks of shape (r, c) a
\* Toeplitz view reports block count (N, N), block shape (r, c) and total
\* shape (N*r, N*c); a circulant view reports block count (M, M) and total
\* shape (M*r, M*c), M by its parity rule, and block-shape lists of length M.
C15_ShapeLaws ==
    (self.cls \in Classes /\ op \in ShapeProperties)
        => /\ ret.kind = "return"
           /\ op = "nb_blocks" => ret.val = <<ExpectedCount, ExpectedCount>>
           /\ op = "block_shape" => ret.val = <<BlockRowsCount, BlockColsCount>>
           /\ op = "shape" => ret.val = <<ExpectedCount * BlockRowsCount,
                                          ExpectedCount * BlockColsCount>>
           /\ op = "block_shapes" =>
                  /\ Len(ret.val[1]) = ExpectedCount
                  /\ Len(ret.val[2]) = ExpectedCount
                  /\ \A k \in 1..ExpectedCount :
                         /\ ret.val[1][k] = BlockRowsCount
                         /\ ret.val[2][k] = BlockColsCount

\* C15 witness: the total shape of an odd circulant view over two stored
\* 1 x 2 blocks was asked and is (3, 6).
C15_Witness ==
    /\ IsView(Odd) /\ Ns = 2 /\ BlockRowsCount = 1 /\ BlockColsCount = 2
    /\ op = "shape" /\ ret.val = <<3, 6>>

\* all the blocks of the row have the shape of the first one
OneShape(blocks) ==
    \A k \in 1..Len(blocks) : array_shape(blocks[k]) = array_shape(blocks[1])

\* C16 (mismatched shapes): a construction from a row in which some block has
\* not the shape of the first block fails with the assertion error of the
\* dimension check and leaves no object, so that every view that exists (the
\* constructed one, the one a transposition returns, the even embedding of a
\* Toeplitz view, built without the check) stores blocks of one shape.
C16_OneShapeOrNoView ==
    /\ (op = "__init__" /\ ~OneShape(arg))
           => /\ self = NoObject
              /\ ret.kind = "raise"
              /\ ret.val = "AssertionError"
    /\ self.cls \in Classes => OneShape(self._stored_blocks)
    /\ (self.cls \in Classes /\ op \in {"T", "T.T"} /\ ret.kind = "return")
           => OneShape(ret.val._stored_blocks)
    /\ IsView(Toeplitz) => OneShape(embedding(self)._stored_blocks)

\* C16 witness: a construction from three blocks, the third of another shape
\* than the first two, has failed with the assertion error.
C16_Witness ==
    /\ op = "__init__" /\ Len(arg) = 3
    /\ array_shape(arg[2]) = array_shape(arg[1])
    /\ array_shape(arg[3]) # array_shape(arg[1])
    /\ self = NoObject /\ ret.kind = "raise" /\ ret.val = "AssertionError"

(***************************************************************************)
(* The examples of the docstring of the even variant.                      *)
(***************************************************************************)
\* the names the docstrings give to the stored blocks 0, 1, 2, 3
Letters == <<"A", "B", "C", "D">>

\* a grid of indices written with the names of the stored blocks
Lettered(grid) ==
    [i \in 1..Len(grid) |-> [j \in 1..Len(grid[i]) |-> Letters[grid[i][j] + 1]]]

\* the first example of the docstring of the even variant
EvenExampleOfThree ==
    << <<"A", "B", "C", "B">>,
       <<"B", "A", "B", "C">>,
       <<"C", "B", "A", "B">>,
       <<"B", "C", "B", "A">> >>

\* the second example of the docstring of the even variant
EvenExampleOfFour ==
    << <<"A", "B", "C", "D", "C", "B">>,
       <<"B", "A", "B", "C", "D", "B">>,
       <<"C", "B", "A", "B", "C", "D">>,
       <<"D", "C", "B", "A", "B", "C">>,
       <<"C", "D", "C", "B", "A", "B">>,
       <<"B", "C", "D", "C", "B", "A">> >>

\* C17 (documented example, as claimed): the full matrix of the even variant
\* over four stored blocks A,B,C,D has the block rows ABCDCB, BABCDB,
\* CBABCD, DCBABC, CDCBAB, BCDCBA, and over three stored blocks A,B,C the
\* rows ABCB, BABC, CBAB, BCBA.
C17_DocumentedExample ==
    (IsView(Even) /\ op = "_index_grid" /\ Ns \in {3, 4})
        => /\ ret.kind = "return"
           /\ Ns = 4 => Lettered(ret.val) = EvenExampleOfFour
           /\ Ns = 3 => Lettered(ret.val) = EvenExampleOfThree

(***************************************************************************)
(* Properties of the materialized blocks and of the embedding.             *)
(***************************************************************************)
\* C19 (all_blocks is faithful, as claimed): for every Toeplitz, even or odd
\* circulant view all_blocks returns the grid of blocks in which the block
\* at (i,j) is the stored block of index index_grid[i][j]; for the circulant
\* views, whose lookup goes through the first block line of length M,
\* baseline_grid[k] = k for every stored index k in [0, N_s).
C19_AllBlocksFaithful ==
    (self.cls \in Classes /\ op = "all_blocks")
        => /\ ret.kind = "return"
           /\ Len(ret.val) = M
           /\ \A i \in 0..(M - 1) :
                  /\ Len(ret.val[i + 1]) = M
                  /\ \A j \in 0..(M - 1) :
                         Returned(i, j) = self._stored_blocks[ValueAt(i, j) + 1]
           /\ self.cls \in Circulant
                  => \A k \in 0..(Ns - 1) :
                         /\ k < Len(_baseline_grid(self))
                         /\ _baseline_grid(self)[k + 1] = k

\* C20 (matching leading entries): the product of a Toeplitz view of N >= 2
\* stored blocks with a vector of length N*c goes through the even circulant
\* over the same N stored blocks, with M = 2(N-1) whatever the parity of N
\* (the outcome is that of the circulant product of the padded vector, cut to
\* N*r entries), and the index grid of that circulant on rows and columns
\* 0..N-1 is the Toeplitz index grid: baseline_grid[(j-i) mod M] = |i-j|.
C20_MatchingLeadingEntries ==
    (IsView(Toeplitz) /\ Ns >= 2 /\ MultipliedVector(Ns * BlockColsCount))
        => LET A == embedding(self)
               m == 2 * (Ns - 1)
               Ab == Circulant___matmul__(
                         A, ndarray1(arg.data \o zeros((m - Ns) * BlockColsCount)))
           IN /\ A.cls = Even
              /\ A._stored_blocks = self._stored_blocks
              /\ nb_blocks(A) = <<m, m>>
              /\ \A i \in 0..(Ns - 1) : \A j \in 0..(Ns - 1) :
                     /\ _index_grid(A)[i + 1][j + 1] = _index_grid(self)[i + 1][j + 1]
                     /\ _baseline_grid(A)[((j - i) % m) + 1] = Distance(i, j)
              /\ ret.kind = Ab.kind
              /\ Ab.kind = "return" => ret.val = slice_to(Ab.val, Ns * BlockRowsCount)
              /\ Ab.kind = "raise" => ret.val = Ab.val

\* C20 witness: a Toeplitz view of three 1 x 1 blocks (an odd N) has been
\* multiplied by a vector of length 3 and has returned 3 entries; its
\* embedding has 4 blocks per side.
C20_Witness ==
    /\ IsView(Toeplitz) /\ Ns = 3 /\ BlockRowsCount = 1 /\ BlockColsCount = 1
    /\ MultipliedVector(3)
    /\ ret.kind = "return" /\ Len(ret.val) = 3
    /\ nb_blocks(embedding(self)) = <<4, 4>>

(***************************************************************************)
(* Validity and coverage of the indices.                                   *)
(***************************************************************************)
\* the cells a list of positions holds
CellsOf(positions) == {positions[t] : t \in 1..Len(positions)}

\* C21 (index validity and coverage): for every Toeplitz view, even view
\* with N_s >= 2 and odd view, every entry of the index grid is a stored
\* index in [0, N_s) and every stored index in [0, N_s) occurs in the grid;
\* the lists _positions_of_index(0), ..., _positions_of_index(N_s - 1) are
\* pairwise disjoint and together hold every cell of the grid exactly once.
C21_IndexValidityAndCoverage ==
    /\ (ValidView /\ op = "_index_grid")
           => /\ ret.kind = "return"
              /\ \A i \in 1..Len(ret.val) : \A j \in 1..Len(ret.val[i]) :
                     ret.val[i][j] \in 0..(Ns - 1)
              /\ \A k \in 0..(Ns - 1) :
                     \E i \in 1..Len(ret.val) : \E j \in 1..Len(ret.val[i]) :
                         ret.val[i][j] = k
    /\ (ValidView /\ op = "_positions_of_index" /\ arg \in 0..(Ns - 1))
           => /\ ret.kind = "return"
              /\ ret.val # <<>>
              /\ \A k \in 0..(Ns - 1) :
                     k # arg => CellsOf(ret.val) \cap CellsOf(_positions_of_index(self, k)) = {}
              /\ UNION {CellsOf(_positions_of_index(self, k)) : k \in 0..(Ns - 1)}
                     = (0..(M - 1)) \X (0..(M - 1))
              /\ sum([k \in 1..Ns |-> Len(_positions_of_index(self, k - 1))]) = M * M

\* C21 witness: the positions of index 1 in an odd view over two stored
\* blocks were asked: the six cells off the diagonal of the 3 x 3 grid.
C21_Witness ==
    /\ IsView(Odd) /\ Ns = 2 /\ op = "_positions_of_index" /\ arg = 1
    /\ ret.val = << <<0, 1>>, <<0, 2>>, <<1, 0>>, <<1, 2>>, <<2, 0>>, <<2, 1>> >>

(***************************************************************************)
(* Properties of the type of the elements of a product.                    *)
(***************************************************************************)
\* The ordinary product with v of the materialized block matrix of n x n
\* blocks whose block (i, j) is the one of index at(i, j) in the row blocks.
DenseProductOf(blocks, n, at(_, _), v) ==
    LET c == Len(blocks[1][1])
        r == Len(blocks[1])
    IN concatenate(
         [i \in 1..n |->
            [a \in 1..r |->
               sum([j \in 1..n |->
                      matvec(blocks[at(i - 1, j - 1) + 1],
                             SubSeq(v, (j - 1) * c + 1, j * c))[a]])]])

\* the product with v of the materialized matrix whose block (i, j) is the
\* one of index index_grid[i][j] in the row blocks
MaterializedProduct(blocks, v) ==
    LET grid == _index_grid(self)
        at(i, j) == grid[i + 1][j + 1]
    IN DenseProductOf(blocks, M, at, v)

\* the real and the imaginary parts of the product of the materialized
\* matrix of complex blocks with the complex vector of the last call
MaterializedRe ==
    LET a == MaterializedProduct(self._stored_blocks, arg.data)
        b == MaterializedProduct(self._imag_blocks, arg.imag)
    IN [t \in 1..Len(a) |-> a[t] - b[t]]

MaterializedIm ==
    LET a == MaterializedProduct(self._stored_blocks, arg.imag)
        b == MaterializedProduct(self._imag_blocks, arg.data)
    IN [t \in 1..Len(a) |-> a[t] + b[t]]

\* what a product that returns does with a real-valued vector: the real part
\* of the materialized product is returned and its imaginary part discarded,
\* so that the result is not that product when it is not real
ImaginaryPartDiscarded ==
    arg.dtype # "complex128"
        => /\ ret.val.data = MaterializedRe
           /\ ret.val.imag = zeros(Len(ret.val.data))
           /\ (\E t \in 1..Len(MaterializedIm) : MaterializedIm[t] # 0)
                  => ret.val.imag # MaterializedIm

\* C22 (result element type, as claimed): a circulant product, and therefore
\* a Toeplitz product, returns a vector whose element type is that of the
\* input vector, not that of the blocks; with complex blocks and a
\* real-valued vector the imaginary part of the product is discarded.
C22_ResultElementType ==
    (self.cls \in Classes /\ op = "__matmul__" /\ ret.kind = "return")
        => /\ ret.val.dtype = arg.dtype
           /\ ImaginaryPartDiscarded

\* C22 (result element type, amended): a circulant product returns a vector
\* whose element type is that of the input vector; a Toeplitz product returns
\* one whose element type is that of the zero-padded vector, the type of the
\* input vector promoted with float64 (float64 for an int64 vector); in both,
\* with complex blocks and a real-valued vector the imaginary part of the
\* product is discarded.
C22_ResultElementTypePromoted ==
    (self.cls \in Classes /\ op = "__matmul__" /\ ret.kind = "return")
        => /\ ret.val.dtype = (IF IsView(Toeplitz)
                               THEN result_type(arg.dtype, "float64")
                               ELSE arg.dtype)
           /\ ImaginaryPartDiscarded

\* C22 witness: a Toeplitz view of the two complex 1 x 1 blocks 1+i, i has
\* been multiplied by the int64 vector [1, 0]; the product of the
\* materialized matrix is [1+i, i], the result the float64 vector [1, 0].
C22_Witness ==
    /\ IsView(Toeplitz) /\ Ns = 2 /\ op = "__matmul__" /\ ret.kind = "return"
    /\ self._stored_blocks = << << <<1>> >>, << <<0>> >> >>
    /\ self._imag_blocks = << << <<1>> >>, << <<1>> >> >>
    /\ arg.dtype = "int64" /\ arg.data = <<1, 0>>
    /\ MaterializedRe = <<1, 0>> /\ MaterializedIm = <<1, 1>>
    /\ ret.val.dtype = "float64" /\ ret.val.data = <<1, 0>> /\ ret.val.imag = <<0, 0>>

====
